---- MODULE Spec2Model ----
(***************************************************************************)
(* Model of statannot.add_stat_annotation (statannot/statannot.py) and of  *)
(* the significance formatter pval_annotation_text / simple_text           *)
(* (statannot/format_annotations.py).                                      *)
(*                                                                         *)
(* Number representation (Python floats are modelled as exact fixed-point  *)
(* integers):                                                              *)
(*   y values      : multiples of 1/10000 of a data unit (One = 1.0);      *)
(*                   every input y value is a multiple of 0.01, so that    *)
(*                   0.0x * yrange and 1.03 * y stay exact                 *)
(*   fractions     : line_offset, line_offset_to_box, line_height are in   *)
(*                   hundredths (5 = 0.05)                                 *)
(*   x positions   : tenths of a category step (10 = 1.0)                  *)
(*   p-values      : multiples of 1e-5 (POne = 1.0)                        *)
(* Python None is the string "None" for string-valued arguments, the empty *)
(* tuple for optional numbers and lists (a present value v is <<v>>), and  *)
(* the integer NoneTop where it is stored among y values.                  *)
(***************************************************************************)
EXTENDS Integers, Sequences, FiniteSets, TLC

One == 100 * 100
POne == 1000 * 100

None == << >>
Some(v) == << v >>
Val(o) == o[1]

\* np.nan as the ymax of an empty sample, and inside the float y_stack_arr
NaN == -999999999
\* the value of a call to _guess_annotation_top_from_font_size, which has
\* no return statement
NoneTop == -999999998

Abs(v) == IF v < 0 THEN -v ELSE v

SeqMax(s) == CHOOSE m \in {s[k] : k \in 1..Len(s)} : \A k \in 1..Len(s) : s[k] <= m

Range(s) == {s[k] : k \in 1..Len(s)}

(***************************************************************************)
(* Bounds of the model                                                     *)
(***************************************************************************)
\* longest box_pairs list of the pair-resolver and validation inputs
MaxPairs == 2
\* longest box_pairs list of the placement inputs
MaxLayoutPairs == 2
\* longest threshold table given to the formatter (besides the defaults)
MaxTable == 2

(***************************************************************************)
(* Program constants                                                       *)
(***************************************************************************)
DefaultLineOffsetInside == 5
DefaultLineOffsetToBoxInside == 6
DefaultLineOffsetOutside == 3
DefaultLineHeight == 2
YlimMarginPct == 103
InitialUpperBound == 110000

(***************************************************************************)
(* Significance formatter (format_annotations.py)                          *)
(***************************************************************************)
\* default threshold tables of add_stat_annotation, rows <<cutoff, label>>
DefaultStarThresholds ==
    << <<10, "****">>, <<100, "***">>, <<1000, "**">>, <<5000, "*">>, <<POne, "ns">> >>
DefaultSimpleThresholds ==
    << <<1, "1e-5">>, <<10, "1e-4">>, <<100, "0.001">>, <<1000, "0.01">> >>

\* one step of DataFrame.sort_values(by=0, ascending=False): the row goes
\* after the rows whose cutoff is not smaller
InsertDescending(s, row) ==
    LET n == Cardinality({j \in 1..Len(s) : s[j][1] >= row[1]})
    IN  SubSeq(s, 1, n) \o << row >> \o SubSeq(s, n + 1, Len(s))

SortDescending(t) ==
    LET F[n \in 0..Len(t)] == IF n = 0 THEN << >> ELSE InsertDescending(F[n - 1], t[n])
    IN  F[Len(t)]

\* sorted(pvalue_thresholds, key=lambda x: x[0])
InsertAscending(s, row) ==
    LET n == Cardinality({j \in 1..Len(s) : s[j][1] <= row[1]})
    IN  SubSeq(s, 1, n) \o << row >> \o SubSeq(s, n + 1, Len(s))

SortAscending(t) ==
    LET F[n \in 0..Len(t)] == IF n = 0 THEN << >> ELSE InsertAscending(F[n - 1], t[n])
    IN  F[Len(t)]

\* pval_annotation_text for one result: [error, text].  The loop state after
\* i rows is [err, ann, last] (assertion failed, significance_annotations[0],
\* last_p_upper_bound).
pval_annotation_text(result, pvalue_thresholds) ==
    LET t == SortDescending(pvalue_thresholds)
        Loop[i \in 0..Len(t)] ==
            IF i = 0
            THEN [err |-> FALSE, ann |-> "", last |-> InitialUpperBound]
            ELSE LET prev == Loop[i - 1]
                 IN  IF prev.err THEN prev
                     ELSE IF ~(t[i][1] < prev.last) THEN [prev EXCEPT !.err = TRUE]
                     ELSE [err  |-> FALSE,
                           ann  |-> IF result.pval <= t[i][1] THEN t[i][2] ELSE prev.ann,
                           last |-> t[i][1]]
        end == Loop[Len(t)]
    IN  IF Len(pvalue_thresholds) = 0
        THEN [error |-> "KeyError", text |-> ""]
        ELSE IF end.err
        THEN [error |-> "AssertionError", text |-> ""]
        ELSE [error |-> "", text |-> end.ann \o result.significance_suffix]

\* '{:.2f}'.format(p) and '{:.3e}'.format(p) as the number they print
Format2f(p) == ((p + 500) \div 1000) * 1000
Format3e(p) ==
    IF p < 10000 THEN p
    ELSE IF p < 100000 THEN ((p + 5) \div 10) * 10
    ELSE ((p + 50) \div 100) * 100

\* simple_text: <<test-name prefix, "p <= label" or "p = ", printed p-value
\* (0 when a label is printed), suffix>>
simple_text(result, pvalue_thresholds, test_short_name) ==
    LET thresholds == SortAscending(pvalue_thresholds)
        text == IF test_short_name \in {"None", ""} THEN "" ELSE test_short_name \o " "
        hits == {k \in 1..Len(thresholds) : result.pval < thresholds[k][1]}
        first == CHOOSE k \in hits : \A j \in hits : k <= j
    IN  IF hits # {}
        THEN << "simple", text, "p <= " \o thresholds[first][2], 0, result.significance_suffix >>
        ELSE << "simple", text, "p = ", Format2f(result.pval), result.significance_suffix >>


VARIABLES
    arg,               \* the arguments of the call (constant during the call)
    box_plotter,       \* the seaborn plotter: group_names, hue_names, hue_offsets, plot_data, dtype
    ax,                \* the plot surface: ylim <<lo, hi>>, artists (brackets with their text), renderer (a canvas exists)
    pc,                \* position of the call
    locals,            \* locals ylim, line_offset, line_offset_to_box (lines 164-182)
    box_struct_pairs,  \* local box_struct_pairs (resolved, oriented, sorted)
    test_result_list,  \* local test_result_list
    y_stack_arr,       \* local y_stack_arr: rows x, top_y (row 1), stack_depth (row 2) and its dtype
    y_stack,           \* local y_stack: consumed top of every annotated pair
    fmt_in,            \* formatter input: [result, pvalue_thresholds]
    fmt_out            \* formatter output

vars == << arg, box_plotter, ax, pc, locals, box_struct_pairs, test_result_list,
           y_stack_arr, y_stack, fmt_in, fmt_out >>
callvars == << arg, box_plotter, ax, pc, locals, box_struct_pairs, test_result_list,
               y_stack_arr, y_stack >>

(***************************************************************************)
(* Geometry: box names, x positions, samples (lines 59-97, 201-227)        *)
(***************************************************************************)
\* stats.tests.IMPLEMENTED_TESTS
IMPLEMENTED_TESTS == {"t-test_ind", "Mann-Whitney"}

\* utils.assert_is_in(x, valid_values): TRUE when it does not raise
assert_is_in(x, valid_values) == x \in valid_values

HasHues == Len(box_plotter.hue_names) > 0

\* list.index(v), 0-based
IndexOf(s, v) == (CHOOSE k \in 1..Len(s) : s[k] = v /\ \A j \in 1..(k - 1) : s[j] # v) - 1

\* box_names (lines 204-208); a name is <<cat>> or <<cat, hue>>
box_names ==
    LET G == Len(box_plotter.group_names)
        H == Len(box_plotter.hue_names)
    IN  IF ~HasHues
        THEN [i \in 1..G |-> << box_plotter.group_names[i] >>]
        ELSE [k \in 1..(G * H) |-> << box_plotter.group_names[((k - 1) \div H) + 1],
                                      box_plotter.hue_names[((k - 1) % H) + 1] >>]

find_x_position_box(box_name) ==
    LET hue_offset == IF ~HasHues THEN 0
                      ELSE box_plotter.hue_offsets[IndexOf(box_plotter.hue_names, box_name[2]) + 1]
        group_pos == IndexOf(box_plotter.group_names, box_name[1])
    IN  group_pos * 10 + hue_offset

get_box_data(box_name) ==
    LET index == IndexOf(box_plotter.group_names, box_name[1])
        group_data == box_plotter.plot_data[index + 1]
    IN  IF ~HasHues THEN group_data
        ELSE group_data[IndexOf(box_plotter.hue_names, box_name[2]) + 1]

\* np.amax(box_data) if len(box_data) > 0 else np.nan
YMax(box_data) == IF Len(box_data) > 0 THEN SeqMax(box_data) ELSE NaN

\* one step of sorted(box_structs, key=lambda a: a['x'])
InsertByX(s, b) ==
    LET n == Cardinality({j \in 1..Len(s) : s[j].x <= b.x})
    IN  SubSeq(s, 1, n) \o << b >> \o SubSeq(s, n + 1, Len(s))

\* box_structs after lines 211-225: sorted by x, with the index xi (0-based)
box_structs ==
    LET raw == [i \in 1..Len(box_names) |->
                   [box      |-> box_names[i],
                    x        |-> find_x_position_box(box_names[i]),
                    box_data |-> get_box_data(box_names[i]),
                    ymax     |-> YMax(get_box_data(box_names[i]))]]
        F[n \in 0..Len(raw)] == IF n = 0 THEN << >> ELSE InsertByX(F[n - 1], raw[n])
        srt == F[Len(raw)]
    IN  [i \in 1..Len(srt) |->
            [box |-> srt[i].box, x |-> srt[i].x, box_data |-> srt[i].box_data,
             ymax |-> srt[i].ymax, xi |-> i - 1]]

\* box_structs_dic[box] (line 227)
box_structs_dic(box) == CHOOSE b \in Range(box_structs) : b.box = box

(***************************************************************************)
(* Argument validation (lines 119-147)                                     *)
(***************************************************************************)
\* the validation without the check that no test_short_name comes with a test
ArgsValid_ShortNameUnchecked ==
    /\ IF arg.perform_stat_test
       THEN /\ arg.test # "None"
            /\ arg.pvalues = None
            /\ arg.test \in IMPLEMENTED_TESTS
       ELSE /\ arg.pvalues # None
            /\ arg.test = "None"
            /\ Len(Val(arg.pvalues)) = Len(arg.box_pairs)
    /\ (arg.text_annot_custom # None
          => Len(Val(arg.text_annot_custom)) = Len(arg.box_pairs))
    /\ assert_is_in(arg.loc, {"inside", "outside"})
    /\ assert_is_in(arg.text_format, {"full", "simple", "star"})

ArgsValid ==
    /\ IF arg.perform_stat_test
       THEN /\ arg.test # "None"
            /\ arg.pvalues = None /\ arg.test_short_name = "None"
            /\ arg.test \in IMPLEMENTED_TESTS
       ELSE /\ arg.pvalues # None
            /\ arg.test = "None"
            /\ Len(Val(arg.pvalues)) = Len(arg.box_pairs)
    /\ (arg.text_annot_custom # None
          => Len(Val(arg.text_annot_custom)) = Len(arg.box_pairs))
    /\ assert_is_in(arg.loc, {"inside", "outside"})
    /\ assert_is_in(arg.text_format, {"full", "simple", "star"})

Validate ==
    /\ pc = "validate"
    /\ pc' = IF ArgsValid THEN "offsets" ELSE "ValueError"
    /\ UNCHANGED << arg, box_plotter, ax, locals, box_struct_pairs, test_result_list,
                    y_stack_arr, y_stack, fmt_in, fmt_out >>

(***************************************************************************)
(* Offsets (lines 164-184)                                                 *)
(***************************************************************************)
\* line_offset and line_offset_to_box after lines 167-182
ResolveOffsets(loc, line_offset, line_offset_to_box) ==
    IF line_offset = None
    THEN IF loc = "inside"
         THEN [line_offset        |-> Some(DefaultLineOffsetInside),
               line_offset_to_box |-> IF line_offset_to_box = None
                                      THEN Some(DefaultLineOffsetToBoxInside)
                                      ELSE line_offset_to_box]
         ELSE [line_offset        |-> Some(DefaultLineOffsetOutside),
               line_offset_to_box |-> IF line_offset_to_box = None
                                      THEN Some(DefaultLineOffsetOutside)
                                      ELSE line_offset_to_box]
    ELSE IF loc = "inside"
         THEN [line_offset        |-> line_offset,
               line_offset_to_box |-> IF line_offset_to_box = None
                                      THEN Some(DefaultLineOffsetToBoxInside)
                                      ELSE line_offset_to_box]
         ELSE IF loc = "outside"
         THEN [line_offset |-> line_offset, line_offset_to_box |-> line_offset]
         ELSE [line_offset |-> line_offset, line_offset_to_box |-> line_offset_to_box]

yrange == locals.ylim[2] - locals.ylim[1]
\* a fraction (in hundredths) of the axis y-range
Fraction(f) == (f * yrange) \div 100
y_offset == Fraction(Val(locals.line_offset))
y_offset_to_box == Fraction(Val(locals.line_offset_to_box))

ComputeOffsets ==
    /\ pc = "offsets"
    /\ LET r == ResolveOffsets(arg.loc, arg.line_offset, arg.line_offset_to_box)
       IN  locals' = [ylim               |-> ax.ylim,
                      line_offset        |-> r.line_offset,
                      line_offset_to_box |-> r.line_offset_to_box]
    /\ pc' = "resolve"
    /\ UNCHANGED << arg, box_plotter, ax, box_struct_pairs, test_result_list,
                    y_stack_arr, y_stack, fmt_in, fmt_out >>


(***************************************************************************)
(* Pair resolver and occupancy stack construction (lines 201-259)          *)
(***************************************************************************)
\* dict(box_structs_dic[box], i_box_pair=i_box_pair)
WithIndex(b, i_box_pair) ==
    [box |-> b.box, x |-> b.x, box_data |-> b.box_data, ymax |-> b.ymax, xi |-> b.xi,
     i_box_pair |-> i_box_pair]

\* lines 239-242: members ordered by x
OrientPair(box_struct1, box_struct2) ==
    IF box_struct1.x <= box_struct2.x
    THEN << box_struct1, box_struct2 >>
    ELSE << box_struct2, box_struct1 >>

\* the sort key without abs(), taken right to left
SpanKey_Signed(pair) == pair[1].x - pair[2].x

\* key of the sort of line 247
SpanKey(pair) == Abs(pair[2].x - pair[1].x)

\* one step of sorted(box_struct_pairs, key=...): Python's sort is stable
InsertBySpan(s, pair) ==
    LET n == Cardinality({j \in 1..Len(s) : SpanKey(s[j]) <= SpanKey(pair)})
    IN  SubSeq(s, 1, n) \o << pair >> \o SubSeq(s, n + 1, Len(s))

PairValid(box_pair) ==
    box_pair[1] \in Range(box_names) /\ box_pair[2] \in Range(box_names)

\* box_struct_pairs after line 247 (all pairs valid)
ResolvedPairs ==
    LET bp == arg.box_pairs
        built == [k \in 1..Len(bp) |->
                     OrientPair(WithIndex(box_structs_dic(bp[k][1]), k - 1),
                                WithIndex(box_structs_dic(bp[k][2]), k - 1))]
        F[n \in 0..Len(bp)] == IF n = 0 THEN << >> ELSE InsertBySpan(F[n - 1], built[n])
    IN  F[Len(bp)]

\* conversion of a float to the element type of an integer array: the
\* fractional part is dropped (towards zero)
Trunc(v) == IF v >= 0 THEN (v \div One) * One ELSE -(((-v) \div One) * One)

\* value stored by an assignment of the number v into y_stack_arr
Cast(dtype, v) == IF dtype = "int64" /\ v # NaN THEN Trunc(v) ELSE v

\* element type np.array gives y_stack_arr (line 252): integer when every
\* x is a Python int (no hue offset) and every ymax a numpy integer
StackDtype ==
    IF /\ ~HasHues
       /\ box_plotter.dtype = "int64"
       /\ \A i \in 1..Len(box_structs) : box_structs[i].ymax # NaN
    THEN "int64" ELSE "float64"

\* y_stack_arr after lines 252-256
InitialStack ==
    [x     |-> [i \in 1..Len(box_structs) |-> box_structs[i].x],
     top_y |-> [i \in 1..Len(box_structs) |->
                   IF arg.loc = "outside" THEN Cast(StackDtype, locals.ylim[2])
                   ELSE box_structs[i].ymax],
     depth |-> [i \in 1..Len(box_structs) |-> 0],
     dtype |-> StackDtype]

ResolvePairs ==
    /\ pc = "resolve"
    /\ IF \A k \in 1..Len(arg.box_pairs) : PairValid(arg.box_pairs[k])
       THEN /\ box_struct_pairs' = ResolvedPairs
            /\ y_stack_arr' = InitialStack
            /\ pc' = "test"
       ELSE /\ pc' = "ValueError"
            /\ UNCHANGED << box_struct_pairs, y_stack_arr >>
    /\ UNCHANGED << arg, box_plotter, ax, locals, test_result_list, y_stack,
                    fmt_in, fmt_out >>

(***************************************************************************)
(* Test results (lines 261-291)                                            *)
(***************************************************************************)
\* what stats.tests.stat_test can return for a pair: a p-value and the
\* suffix of the comparisons correction.  The batch correction of lines
\* 293-303 only sets correction fields of the results, which the suffix
\* chosen here stands for; custom results keep the empty suffix of the
\* default correction.
StatOutcomes == [pval : {3000, 20000}, significance_suffix : {"", " (ns)"}]

FetchResults ==
    /\ pc = "test"
    /\ LET n == Len(box_struct_pairs)
       IN  /\ IF arg.perform_stat_test
              THEN \E out \in [1..n -> StatOutcomes] :
                     test_result_list' =
                       [k \in 1..n |->
                          [test_short_name     |-> arg.test,
                           pval                |-> out[k].pval,
                           significance_suffix |-> out[k].significance_suffix,
                           box1                |-> box_struct_pairs[k][1].box,
                           box2                |-> box_struct_pairs[k][2].box]]
              ELSE test_result_list' =
                       [k \in 1..n |->
                          [test_short_name     |-> IF arg.test_short_name # "None"
                                                   THEN arg.test_short_name ELSE "",
                           pval                |-> Val(arg.pvalues)[box_struct_pairs[k][1].i_box_pair + 1],
                           significance_suffix |-> "",
                           box1                |-> box_struct_pairs[k][1].box,
                           box2                |-> box_struct_pairs[k][2].box]]
           /\ pc' = IF n = 0 THEN "ylim" ELSE "annotate"
    /\ UNCHANGED << arg, box_plotter, ax, locals, box_struct_pairs, y_stack_arr, y_stack,
                    fmt_in, fmt_out >>


(***************************************************************************)
(* Placement and drawing of one pair (lines 306-387)                       *)
(***************************************************************************)
\* pvalue_thresholds after lines 106-112
PvalueThresholds ==
    IF arg.pvalue_thresholds # None THEN Val(arg.pvalue_thresholds)
    ELSE IF arg.text_format = "star" THEN DefaultStarThresholds
    ELSE DefaultSimpleThresholds

\* lines 323-335: [error, text]; no text (None) is the empty tuple.  The
\* comparisons `text_format is 'star'` are taken as equalities; a format
\* that matches no branch leaves `text` unbound.
AnnotationText(result, i_box_pair) ==
    IF arg.text_annot_custom # None
    THEN [error |-> "", text |-> << "custom", Val(arg.text_annot_custom)[i_box_pair + 1] >>]
    ELSE IF arg.text_format = "full"
    THEN [error |-> "",
          text  |-> << "full", result.test_short_name, Format3e(result.pval),
                       result.significance_suffix >>]
    ELSE IF arg.text_format = "None"
    THEN [error |-> "", text |-> << >>]
    ELSE IF arg.text_format = "star"
    THEN LET r == pval_annotation_text(result, PvalueThresholds)
         IN  [error |-> r.error, text |-> << "star", r.text >>]
    ELSE IF arg.text_format = "simple"
    THEN [error |-> "",
          text  |-> simple_text(result, PvalueThresholds, arg.test_short_name)]
    ELSE [error |-> "UnboundLocalError", text |-> << >>]

\* indices (1-based, ascending) selected by
\* (x1 <= y_stack_arr[0, :]) & (y_stack_arr[0, :] <= x2)
MaskIndices(x1, x2) ==
    SelectSeq([i \in 1..Len(y_stack_arr.x) |-> i],
              LAMBDA i : x1 <= y_stack_arr.x[i] /\ y_stack_arr.x[i] <= x2)

\* the position of the smallest value instead of the largest
nanargmax_Smallest(vals) ==
    (CHOOSE k \in 1..Len(vals) :
        /\ vals[k] # NaN
        /\ \A j \in 1..Len(vals) : vals[j] # NaN => vals[k] <= vals[j]
        /\ \A j \in 1..(k - 1) : vals[j] = NaN \/ vals[k] < vals[j]) - 1

\* np.nanargmax (0-based): first position of the largest non-NaN value
nanargmax(vals) ==
    (CHOOSE k \in 1..Len(vals) :
        /\ vals[k] # NaN
        /\ \A j \in 1..Len(vals) : vals[j] # NaN => vals[j] <= vals[k]
        /\ \A j \in 1..(k - 1) : vals[j] = NaN \/ vals[j] < vals[k]) - 1

\* the offset choice with the test on the stack depth inverted
ChooseOffset_Inverted(stack_depth) ==
    IF stack_depth = 0 THEN y_offset ELSE y_offset_to_box

\* lines 345-350
ChooseOffset(stack_depth) ==
    IF stack_depth = 0 THEN y_offset_to_box ELSE y_offset

\* how far above (or below) the bracket top a measured text ends
TextExtents == {-1000, 3000}

\* lines 356-379: the values y_top_annot can take.  The measured top is the
\* renderer's; the fixed-offset path and the fall-back after a failed
\* measurement (no renderer: RuntimeError, NaN) take the value of
\* _guess_annotation_top_from_font_size
AnnotationTops(bracket_top, text) ==
    IF text = << >> THEN {bracket_top}
    ELSE IF arg.use_fixed_offset \/ ~ax.renderer THEN {NoneTop}
    ELSE {bracket_top + e : e \in TextExtents}

\* lines 385-387 on a pair [x1, x2], [xi1, xi2]
UpdatedStack(x1, x2, xi1, xi2, y_top_annot) ==
    [y_stack_arr EXCEPT
       !.top_y = [i \in 1..Len(y_stack_arr.top_y) |->
                     IF x1 <= y_stack_arr.x[i] /\ y_stack_arr.x[i] <= x2
                     THEN IF y_top_annot = NoneTop THEN NaN
                          ELSE Cast(y_stack_arr.dtype, y_top_annot)
                     ELSE y_stack_arr.top_y[i]],
       !.depth = [i \in 1..Len(y_stack_arr.depth) |->
                     IF xi1 + 1 <= i /\ i <= xi2 + 1
                     THEN y_stack_arr.depth[i] + 1
                     ELSE y_stack_arr.depth[i]]]

Annotate ==
    /\ pc = "annotate"
    /\ LET k == Len(y_stack) + 1
           pair == box_struct_pairs[k]
           result == test_result_list[k]
           x1 == pair[1].x
           x2 == pair[2].x
           xi1 == pair[1].xi
           xi2 == pair[2].xi
           txt == AnnotationText(result, pair[1].i_box_pair)
           mask == MaskIndices(x1, x2)
           vals == [j \in 1..Len(mask) |-> y_stack_arr.top_y[mask[j]]]
       IN  IF txt.error # ""
           THEN /\ pc' = txt.error
                /\ UNCHANGED << ax, y_stack, y_stack_arr >>
           ELSE IF \A j \in 1..Len(vals) : vals[j] = NaN
           THEN \* np.nanargmax: "All-NaN slice encountered"
                /\ pc' = "ValueError"
                /\ UNCHANGED << ax, y_stack, y_stack_arr >>
           ELSE LET i_ymax_in_range_x1_x2 == xi1 + nanargmax(vals)
                    ymax_in_range_x1_x2 == y_stack_arr.top_y[i_ymax_in_range_x1_x2 + 1]
                    offset == ChooseOffset(y_stack_arr.depth[i_ymax_in_range_x1_x2 + 1])
                    y == ymax_in_range_x1_x2 + offset
                    h == Fraction(arg.line_height)
                IN  \E y_top_annot \in AnnotationTops(y + h, txt.text) :
                      /\ ax' = [ax EXCEPT !.artists =
                                   Append(@, [x1 |-> x1, x2 |-> x2, y |-> y, top |-> y + h,
                                              text |-> txt.text])]
                      /\ y_stack' = Append(y_stack, y_top_annot)
                      /\ IF Len(y_stack') >= 2 /\ NoneTop \in Range(y_stack')
                         THEN \* max(y_stack) compares None with a float
                              /\ pc' = "TypeError"
                              /\ UNCHANGED y_stack_arr
                         ELSE IF y_top_annot = NoneTop /\ y_stack_arr.dtype = "int64"
                         THEN \* None assigned into an integer array
                              /\ pc' = "TypeError"
                              /\ UNCHANGED y_stack_arr
                         ELSE /\ y_stack_arr' = UpdatedStack(x1, x2, xi1, xi2, y_top_annot)
                              /\ pc' = IF k = Len(box_struct_pairs) THEN "ylim" ELSE "annotate"
    /\ UNCHANGED << arg, box_plotter, locals, box_struct_pairs, test_result_list,
                    fmt_in, fmt_out >>

(***************************************************************************)
(* Axis limits and return (lines 389-395)                                  *)
(***************************************************************************)
\* max(1.03 * y_stack_max, ylim[1])
UpperLimit(y_stack_max) ==
    LET scaled == (YlimMarginPct * y_stack_max) \div 100
    IN  IF scaled >= locals.ylim[2] THEN scaled ELSE locals.ylim[2]

SetYlim ==
    /\ pc = "ylim"
    /\ IF Len(y_stack) = 0
       THEN \* max() of an empty list
            /\ pc' = "ValueError"
            /\ UNCHANGED ax
       ELSE IF arg.loc = "inside"
       THEN IF NoneTop \in Range(y_stack)
            THEN \* 1.03 * None
                 /\ pc' = "TypeError"
                 /\ UNCHANGED ax
            ELSE /\ ax' = [ax EXCEPT !.ylim = << locals.ylim[1], UpperLimit(SeqMax(y_stack)) >>]
                 /\ pc' = "done"
       ELSE /\ ax' = [ax EXCEPT !.ylim = << locals.ylim[1], locals.ylim[2] >>]
            /\ pc' = "done"
    /\ UNCHANGED << arg, box_plotter, locals, box_struct_pairs, test_result_list,
                    y_stack_arr, y_stack, fmt_in, fmt_out >>


(***************************************************************************)
(* The formatter applied to one result                                     *)
(***************************************************************************)
FormatStar ==
    /\ fmt_in # None /\ fmt_out = None
    /\ fmt_out' = Some([mode |-> "star",
                        out  |-> pval_annotation_text(Val(fmt_in).result,
                                                      Val(fmt_in).pvalue_thresholds)])
    /\ UNCHANGED << callvars, fmt_in >>

FormatSimple ==
    /\ fmt_in # None /\ fmt_out = None
    /\ fmt_out' = Some([mode |-> "simple",
                        out  |-> [error |-> "",
                                  text  |-> simple_text(Val(fmt_in).result,
                                                        Val(fmt_in).pvalue_thresholds,
                                                        Val(fmt_in).test_short_name)]])
    /\ UNCHANGED << callvars, fmt_in >>

(***************************************************************************)
(* Inputs                                                                  *)
(***************************************************************************)
\* sequences over S of length lo..hi
SeqsOf(S, lo, hi) == UNION {[1..n -> S] : n \in lo..hi}

\* custom p-values and custom texts handed to a call, by position
PvalueAt(k) == IF k % 3 = 1 THEN 20000 ELSE IF k % 3 = 2 THEN 3000 ELSE 1
TextAt(k) == IF k % 2 = 1 THEN "a" ELSE "b"

\* samples of one box (missing values removed); all values are whole numbers
Samples == { << >>, << 100000 >>, << 90000, 120000 >>, << -100000 >> }

YLims == { << 30000, 130000 >>, << -205000, -95000 >> }

PlainGeometry(plot_data, dtype) ==
    [group_names |-> << "A", "B", "C" >>, hue_names |-> << >>, hue_offsets |-> << >>,
     plot_data |-> plot_data, dtype |-> dtype]

HueGeometry ==
    [group_names |-> << "A", "B" >>, hue_names |-> << "h1", "h2" >>,
     hue_offsets |-> << -2, 2 >>,
     plot_data |-> << << << 100000 >>, << 90000, 120000 >> >>,
                      << << 110000 >>, << 100000 >> >> >>,
     dtype |-> "int64"]

BaseData == << << 100000 >>, << 90000, 120000 >>, << 110000 >> >>

BaseArg(box_pairs) ==
    [perform_stat_test  |-> FALSE,
     test               |-> "None",
     pvalues            |-> Some([k \in 1..Len(box_pairs) |-> PvalueAt(k)]),
     test_short_name    |-> "None",
     text_format        |-> "star",
     text_annot_custom  |-> None,
     pvalue_thresholds  |-> None,
     loc                |-> "inside",
     line_offset        |-> None,
     line_offset_to_box |-> None,
     line_height        |-> DefaultLineHeight,
     use_fixed_offset   |-> FALSE,
     box_pairs          |-> box_pairs]

BaseAx == [ylim |-> << 30000, 130000 >>, artists |-> << >>, renderer |-> TRUE]

\* the state of a call before its first statement
CallStart ==
    /\ pc = "validate"
    /\ locals = [ylim |-> << 0, 0 >>, line_offset |-> arg.line_offset,
                 line_offset_to_box |-> arg.line_offset_to_box]
    /\ box_struct_pairs = << >>
    /\ test_result_list = << >>
    /\ y_stack_arr = [x |-> << >>, top_y |-> << >>, depth |-> << >>, dtype |-> "float64"]
    /\ y_stack = << >>
    /\ fmt_in = None
    /\ fmt_out = None

PlainNames == { << "A" >>, << "B" >>, << "C" >> }
HueNames == { << "A", "h1" >>, << "A", "h2" >>, << "B", "h1" >>, << "B", "h2" >> }
Unknown == << "Z" >>

\* calls that differ in the arguments the validation looks at
InitValidation ==
    /\ box_plotter = PlainGeometry(BaseData, "float64")
    /\ ax = BaseAx
    /\ \E bp \in SeqsOf({ << << "A" >>, << "B" >> >>, << << "B" >>, Unknown >> }, 0, MaxPairs),
          perform_stat_test \in BOOLEAN,
          test \in {"None", "t-test_ind", "bogus"},
          pv \in {0, 1, 2}, ta \in {0, 1, 2},
          test_short_name \in {"None", "custom"},
          loc \in {"inside", "outside", "above"},
          text_format \in {"star", "full", "simple", "None", "bold"} :
        arg = [BaseArg(bp) EXCEPT
                 !.perform_stat_test = perform_stat_test,
                 !.test = test,
                 !.pvalues = IF pv = 0 THEN None
                             ELSE Some([k \in 1..(Len(bp) + pv - 1) |-> PvalueAt(k)]),
                 !.text_annot_custom = IF ta = 0 THEN None
                                       ELSE Some([k \in 1..(Len(bp) + ta - 1) |-> TextAt(k)]),
                 !.test_short_name = test_short_name,
                 !.loc = loc,
                 !.text_format = text_format]
    /\ CallStart

\* calls that differ in the requested pairs
InitPairs ==
    /\ ax = BaseAx
    /\ \/ /\ box_plotter = PlainGeometry(BaseData, "float64")
          /\ \E bp \in SeqsOf((PlainNames \cup {Unknown}) \X (PlainNames \cup {Unknown}),
                              1, MaxPairs) :
                arg = BaseArg(bp)
       \/ /\ box_plotter = HueGeometry
          /\ \E bp \in SeqsOf((HueNames \X HueNames) \cup {<< << "A", "h1" >>, Unknown >>},
                              1, MaxPairs) :
                arg = BaseArg(bp)
    /\ CallStart

\* requests whose members are already ordered by x
LayoutPairs ==
    { << << "A" >>, << "A" >> >>, << << "A" >>, << "B" >> >>, << << "A" >>, << "C" >> >>,
      << << "B" >>, << "B" >> >>, << << "B" >>, << "C" >> >>, << << "C" >>, << "C" >> >> }

\* calls that differ in the data and in the axis limits
InitLayout ==
    /\ \E plot_data \in [1..3 -> Samples], dtype \in {"int64", "float64"} :
          box_plotter = PlainGeometry(plot_data, dtype)
    /\ \E ylim \in YLims : ax = [BaseAx EXCEPT !.ylim = ylim]
    /\ \E bp \in SeqsOf(LayoutPairs, 1, MaxLayoutPairs) : arg = BaseArg(bp)
    /\ CallStart

\* calls that differ in the layout parameters
InitOffsets ==
    /\ \E dtype \in {"int64", "float64"} : box_plotter = PlainGeometry(BaseData, dtype)
    /\ ax = BaseAx
    /\ \E bp \in SeqsOf(LayoutPairs, 1, MaxLayoutPairs),
          loc \in {"inside", "outside"},
          line_offset \in {None, Some(10), Some(-4)},
          line_offset_to_box \in {None, Some(8)},
          line_height \in {DefaultLineHeight, 0} :
        arg = [BaseArg(bp) EXCEPT
                 !.loc = loc,
                 !.line_offset = line_offset,
                 !.line_offset_to_box = line_offset_to_box,
                 !.line_height = line_height]
    /\ CallStart

\* calls whose text cannot be measured: fixed offset requested, or no renderer
InitRenderer ==
    /\ \E dtype \in {"int64", "float64"} : box_plotter = PlainGeometry(BaseData, dtype)
    /\ \E renderer \in BOOLEAN : ax = [BaseAx EXCEPT !.renderer = renderer]
    /\ \E bp \in SeqsOf(LayoutPairs, 1, MaxLayoutPairs),
          loc \in {"inside", "outside"},
          use_fixed_offset \in BOOLEAN :
        /\ use_fixed_offset \/ ~ax.renderer
        /\ arg = [BaseArg(bp) EXCEPT !.loc = loc, !.use_fixed_offset = use_fixed_offset]
    /\ CallStart

Init == InitValidation \/ InitPairs \/ InitLayout \/ InitOffsets \/ InitRenderer

Next == Validate \/ ComputeOffsets \/ ResolvePairs \/ FetchResults \/ Annotate \/ SetYlim

Spec == Init /\ [][Next]_vars

\* the formatter on bounded tables and p-values
Cutoffs == {10, 5000, POne, 2 * POne}
Labels == {"****", "*", "ns", "x"}
Tables == SeqsOf(Cutoffs \X Labels, 1, MaxTable) \cup {DefaultStarThresholds}
PValues == {1, 3000, 20000, POne}
Suffixes == {"", " (ns)"}

InitFmt ==
    /\ \E t \in Tables, p \in PValues, sfx \in Suffixes, name \in {"None", "t-test_ind"} :
          fmt_in = Some([result |-> [pval |-> p, significance_suffix |-> sfx],
                         pvalue_thresholds |-> t,
                         test_short_name |-> name])
    /\ fmt_out = None
    /\ arg = BaseArg(<< >>)
    /\ box_plotter = PlainGeometry(BaseData, "float64")
    /\ ax = BaseAx
    /\ pc = "idle"
    /\ locals = [ylim |-> << 0, 0 >>, line_offset |-> None, line_offset_to_box |-> None]
    /\ box_struct_pairs = << >>
    /\ test_result_list = << >>
    /\ y_stack_arr = [x |-> << >>, top_y |-> << >>, depth |-> << >>, dtype |-> "float64"]
    /\ y_stack = << >>

NextFmt == FormatStar \/ FormatSimple

SpecFmt == InitFmt /\ [][NextFmt]_vars


(***************************************************************************)
(* Properties                                                              *)
(***************************************************************************)
Exceptions == {"ValueError", "TypeError", "AssertionError", "UnboundLocalError"}

\* positions (1-based) of the groups whose x lies in [x1, x2]
Covered(x1, x2) ==
    {i \in 1..Len(y_stack_arr.x) : x1 <= y_stack_arr.x[i] /\ y_stack_arr.x[i] <= x2}

\* the caller's offsets and line height are non-negative
NonNegativeLayout ==
    /\ arg.line_height >= 0
    /\ arg.line_offset # None => Val(arg.line_offset) >= 0
    /\ arg.line_offset_to_box # None => Val(arg.line_offset_to_box) >= 0

\* C1: the returned list holds one result per requested pair, and the result
\* at position k is the result of the k-th pair of box_pairs (its two boxes,
\* and its custom p-value when p-values are supplied).
C1_ResultsInRequestOrder ==
    pc = "done" =>
        /\ Len(test_result_list) = Len(arg.box_pairs)
        /\ \A k \in 1..Len(test_result_list) :
              /\ {test_result_list[k].box1, test_result_list[k].box2}
                    = {arg.box_pairs[k][1], arg.box_pairs[k][2]}
              /\ arg.pvalues # None => test_result_list[k].pval = Val(arg.pvalues)[k]

\* C2: with non-negative offsets and line height, a pair processed after an
\* earlier pair whose range shares a group position with its own gets a
\* bracket base y that is at least the consumed top of the earlier annotation.
C2_LaterBracketAboveEarlierTop ==
    NonNegativeLayout =>
        \A i \in 1..Len(y_stack) : \A j \in (i + 1)..Len(y_stack) :
            (Covered(ax.artists[i].x1, ax.artists[i].x2)
               \cap Covered(ax.artists[j].x1, ax.artists[j].x2) # {})
            => ax.artists[j].y >= y_stack[i]

\* the validation failures of the interface: the call's arguments alone
\* decide them
UnknownGroup(box_pair) ==
    \/ box_pair[1] \notin Range(box_names)
    \/ box_pair[2] \notin Range(box_names)

InvalidRequest ==
    \/ arg.perform_stat_test /\ arg.test = "None"
    \/ arg.perform_stat_test /\ (arg.pvalues # None \/ arg.test_short_name # "None")
    \/ arg.pvalues # None /\ Len(Val(arg.pvalues)) # Len(arg.box_pairs)
    \/ arg.text_annot_custom # None /\ Len(Val(arg.text_annot_custom)) # Len(arg.box_pairs)
    \/ arg.loc \notin {"inside", "outside"}
    \/ arg.text_format \notin {"full", "simple", "star", "None"}
    \/ \E k \in 1..Len(arg.box_pairs) : UnknownGroup(arg.box_pairs[k])

\* C3: a call with one of the validation failures never gets past the
\* validation: every step it takes leaves the plot surface (artists and axis
\* limits) as it was and leads towards the raised ValueError, never to the
\* tests or the drawing.
C3_InvalidCallDrawsNothing ==
    [][InvalidRequest => (ax' = ax /\ pc' \in {"offsets", "resolve", "ValueError"})]_vars

\* C3 witness: the error was raised for a request whose only fault is an
\* unknown group in its last pair, after valid pairs; nothing is drawn
C3_Witness ==
    /\ pc = "ValueError"
    /\ ArgsValid
    /\ Len(arg.box_pairs) >= 2
    /\ UnknownGroup(arg.box_pairs[Len(arg.box_pairs)])
    /\ \A k \in 1..(Len(arg.box_pairs) - 1) : ~UnknownGroup(arg.box_pairs[k])
    /\ ax.artists = << >>

\* C4: the resolved pairs are the requested pairs, each with left.x <=
\* right.x, in non-decreasing order of |right.x - left.x| with equal spans in
\* request order; results and brackets follow that order.
C4_ShortestSpanFirstStable ==
    LET n == Len(box_struct_pairs)
        span(k) == Abs(box_struct_pairs[k][2].x - box_struct_pairs[k][1].x)
        req(k) == arg.box_pairs[box_struct_pairs[k][1].i_box_pair + 1]
    IN  pc \in {"test", "annotate", "ylim", "done", "TypeError"} =>
          /\ n = Len(arg.box_pairs)
          /\ {box_struct_pairs[k][1].i_box_pair : k \in 1..n} = 0..(n - 1)
          /\ \A k \in 1..n :
                /\ box_struct_pairs[k][1].x <= box_struct_pairs[k][2].x
                /\ box_struct_pairs[k][1].i_box_pair = box_struct_pairs[k][2].i_box_pair
                /\ {box_struct_pairs[k][1].box, box_struct_pairs[k][2].box}
                      = {req(k)[1], req(k)[2]}
                /\ box_struct_pairs[k][1].x = find_x_position_box(box_struct_pairs[k][1].box)
                /\ box_struct_pairs[k][2].x = find_x_position_box(box_struct_pairs[k][2].box)
          /\ \A j \in 1..n : \A k \in (j + 1)..n :
                /\ span(j) <= span(k)
                /\ span(j) = span(k)
                     => box_struct_pairs[j][1].i_box_pair < box_struct_pairs[k][1].i_box_pair
          /\ \A k \in 1..Len(test_result_list) :
                /\ test_result_list[k].box1 = box_struct_pairs[k][1].box
                /\ test_result_list[k].box2 = box_struct_pairs[k][2].box
          /\ \A k \in 1..Len(ax.artists) :
                /\ ax.artists[k].x1 = box_struct_pairs[k][1].x
                /\ ax.artists[k].x2 = box_struct_pairs[k][2].x

\* C4 witness: a finished call with two pairs of equal span, the first
\* requested right-to-left, and a call whose pairs were reordered
C4_Witness ==
    /\ pc = "done"
    /\ Len(box_struct_pairs) >= 2
    /\ SpanKey(box_struct_pairs[1]) = SpanKey(box_struct_pairs[2])
    /\ SpanKey(box_struct_pairs[1]) > 0
    /\ box_struct_pairs[1][1].box = arg.box_pairs[1][2]
    /\ box_struct_pairs[1][1].box # arg.box_pairs[1][1]
    /\ Len(ax.artists) = Len(box_struct_pairs)


\* text the claim C5 expects for p under table t: the label of the smallest
\* cutoff c with p <= c, or nothing when p exceeds every cutoff
SmallestCutoffLabel(t, p) ==
    LET hits == {k \in 1..Len(t) : p <= t[k][1]}
        best == CHOOSE k \in hits : \A j \in hits : t[k][1] <= t[j][1]
    IN  IF hits = {} THEN "" ELSE t[best][2]

DistinctCutoffs(t) == \A j \in 1..Len(t) : \A k \in 1..Len(t) : j # k => t[j][1] # t[k][1]

\* C5: star mode returns, for a table of distinct cutoffs, the label of the
\* smallest cutoff c with p <= c followed by the suffix (the suffix alone when
\* p exceeds every cutoff), and fails for a table with two equal cutoffs.
C5_StarLabelOfSmallestCutoff ==
    (fmt_out # None /\ Val(fmt_out).mode = "star") =>
        LET t == Val(fmt_in).pvalue_thresholds
            res == Val(fmt_in).result
            out == Val(fmt_out).out
        IN  IF DistinctCutoffs(t)
            THEN /\ out.error = ""
                 /\ out.text = SmallestCutoffLabel(t, res.pval) \o res.significance_suffix
            ELSE out.error # ""

\* the request is valid in everything but, possibly, its text format
ValidButTextFormat ==
    /\ ~arg.perform_stat_test /\ arg.test = "None"
    /\ arg.pvalues # None /\ Len(Val(arg.pvalues)) = Len(arg.box_pairs)
    /\ arg.loc \in {"inside", "outside"}
    /\ Len(arg.box_pairs) >= 1
    /\ \A k \in 1..Len(arg.box_pairs) : ~UnknownGroup(arg.box_pairs[k])

\* C6: with text format none and no custom text the call is accepted, every
\* bracket is drawn without text, and the consumed top of each pair is its
\* bracket top.
C6_NoneFormatAccepted ==
    (arg.text_format = "None" /\ arg.text_annot_custom = None /\ ValidButTextFormat) =>
        /\ pc \notin Exceptions
        /\ \A k \in 1..Len(y_stack) :
              ax.artists[k].text = << >> /\ y_stack[k] = ax.artists[k].top

\* C7: after a completed call with loc = 'inside' and at least one pair, the
\* upper axis limit is at least the highest consumed top of the call.
C7_UpperLimitCoversAnnotations ==
    (pc = "done" /\ arg.loc = "inside" /\ Len(y_stack) >= 1) =>
        \A k \in 1..Len(y_stack) : ax.ylim[2] >= y_stack[k]

\* C8: over one pair update, stack_depth decreases at no position, and, with
\* non-negative offsets and line height and a consumed top that is not below
\* the bracket top, top_y decreases at no position.
C8_StackNeverDecreases ==
    [][(Len(y_stack_arr'.x) = Len(y_stack_arr.x) /\ Len(y_stack') = Len(y_stack) + 1) =>
          /\ \A i \in 1..Len(y_stack_arr.x) : y_stack_arr'.depth[i] >= y_stack_arr.depth[i]
          /\ (NonNegativeLayout /\ y_stack'[Len(y_stack')] >= ax'.artists[Len(y_stack')].top)
               => \A i \in 1..Len(y_stack_arr.x) :
                     y_stack_arr.top_y[i] # NaN
                       => y_stack_arr'.top_y[i] >= y_stack_arr.top_y[i]]_vars

\* C8 witness: a finished call on an integer stack in which a position took
\* two updates, the second one higher, under the claim's assumptions
C8_Witness ==
    /\ pc = "done"
    /\ NonNegativeLayout
    /\ y_stack_arr.dtype = "int64"
    /\ Len(y_stack) >= 2
    /\ \A k \in 1..Len(y_stack) : y_stack[k] >= ax.artists[k].top
    /\ y_stack[2] > y_stack[1]
    /\ \E i \in 1..Len(y_stack_arr.x) : y_stack_arr.depth[i] >= 2

\* the bracket base the claims C9 and C10 expect on the stack of the current
\* state for a pair spanning [x1, x2], with the given two fractions (in
\* hundredths of the axis y-range): M + offset * yrange, M the largest top_y
\* in the span, offset chosen by stack_depth at the leftmost position of M
ExpectedBase(x1, x2, to_box, stacked) ==
    LET P == {i \in Covered(x1, x2) : y_stack_arr.top_y[i] # NaN}
        M == CHOOSE m \in {y_stack_arr.top_y[i] : i \in P} :
                \A i \in P : y_stack_arr.top_y[i] <= m
        w == CHOOSE i \in P : /\ y_stack_arr.top_y[i] = M
                              /\ \A j \in P : y_stack_arr.top_y[j] = M => i <= j
        frac == IF y_stack_arr.depth[w] = 0 THEN to_box ELSE stacked
    IN  M + (frac * (ax.ylim[2] - ax.ylim[1])) \div 100

\* stack_depth at the position ExpectedBase takes its maximum from
WinnerDepth(x1, x2) ==
    LET P == {i \in Covered(x1, x2) : y_stack_arr.top_y[i] # NaN}
        w == CHOOSE i \in P : /\ \A j \in P : y_stack_arr.top_y[j] <= y_stack_arr.top_y[i]
                              /\ \A j \in P : y_stack_arr.top_y[j] = y_stack_arr.top_y[i] => i <= j
    IN  y_stack_arr.depth[w]

\* C9: a bracket placed above raw data lies the caller's line_offset_to_box
\* (when supplied) times the y-range above it, and a bracket placed above an
\* earlier annotation the caller's line_offset (when supplied) times the
\* y-range above it, for loc inside and outside alike.
C9_SuppliedOffsetsAreUsed ==
    [][Len(ax'.artists) = Len(ax.artists) + 1 =>
          LET a == ax'.artists[Len(ax'.artists)]
              gap == a.y - ExpectedBase(a.x1, a.x2, 0, 0)
          IN  /\ (WinnerDepth(a.x1, a.x2) = 0 /\ arg.line_offset_to_box # None)
                   => gap = (Val(arg.line_offset_to_box) * (ax.ylim[2] - ax.ylim[1])) \div 100
              /\ (WinnerDepth(a.x1, a.x2) > 0 /\ arg.line_offset # None)
                   => gap = (Val(arg.line_offset) * (ax.ylim[2] - ax.ylim[1])) \div 100]_vars

\* C10: every bracket drawn has base y = M + offset * yrange (M the largest
\* top_y in the pair's span, leftmost on ties; offset the offset-to-box
\* fraction when stack_depth there is 0, else the stacked fraction) and top =
\* base + line_height * yrange.
C10_BracketBaseAndTop ==
    [][Len(ax'.artists) = Len(ax.artists) + 1 =>
          LET a == ax'.artists[Len(ax'.artists)]
          IN  /\ a.y = ExpectedBase(a.x1, a.x2, Val(locals.line_offset_to_box),
                                    Val(locals.line_offset))
              /\ a.top = a.y + (arg.line_height * (ax.ylim[2] - ax.ylim[1])) \div 100]_vars

\* C10 witness: A max 10, B max 12, offset-to-box 0.06, line_height 0.02,
\* y-range 10: the first bracket, over (A, B), has base 12.6 and top 12.8
C10_Witness ==
    /\ Len(ax.artists) >= 1
    /\ box_structs[1].ymax = 10 * One /\ box_structs[2].ymax = 12 * One
    /\ locals.ylim[2] - locals.ylim[1] = 10 * One
    /\ locals.line_offset_to_box = Some(6)
    /\ arg.line_height = 2
    /\ arg.loc = "inside"
    /\ ax.artists[1].x1 = box_structs[1].x /\ ax.artists[1].x2 = box_structs[2].x
    /\ ax.artists[1].y = 126000
    /\ ax.artists[1].top = 128000


\* positions in [x1, x2] of the groups whose data sample is empty
EmptyGroups(x1, x2) ==
    {i \in Covered(x1, x2) : Len(box_structs[i].box_data) = 0}

\* C11: with loc = 'inside', custom p-values and a text that can be
\* measured, the step that processes a pair whose span holds an empty group
\* does not raise: it draws the bracket on the largest defined top_y of the
\* span, and leaves the pair's consumed top at the position of every empty
\* group of the span.
C11_EmptyGroupIsNotFatal ==
    [][(/\ pc = "annotate"
        /\ arg.loc = "inside" /\ ~arg.perform_stat_test
        /\ ax.renderer /\ ~arg.use_fixed_offset
        /\ LET pair == box_struct_pairs[Len(y_stack) + 1]
           IN  EmptyGroups(pair[1].x, pair[2].x) # {})
       => LET pair == box_struct_pairs[Len(y_stack) + 1]
              x1 == pair[1].x
              x2 == pair[2].x
          IN  /\ pc' \notin Exceptions
              /\ Len(ax'.artists) = Len(ax.artists) + 1
              /\ \E i \in Covered(x1, x2) : y_stack_arr.top_y[i] # NaN
              /\ ax'.artists[Len(ax'.artists)].y
                    = ExpectedBase(x1, x2, Val(locals.line_offset_to_box),
                                   Val(locals.line_offset))
              /\ \A i \in EmptyGroups(x1, x2) :
                    y_stack_arr'.top_y[i] = y_stack'[Len(y_stack')]]_vars


\* C12: processing one pair (with a measured consumed top) sets top_y to
\* exactly that consumed top and adds one to stack_depth at exactly the
\* positions with x in [left.x, right.x], and changes neither elsewhere;
\* stack_depth then counts the processed pairs whose range covers the position.
C12_ExactUpdateOnSpan ==
    [][(/\ pc = "annotate" /\ pc' \in {"annotate", "ylim"}
        /\ Len(y_stack') = Len(y_stack) + 1
        /\ y_stack'[Len(y_stack')] # NoneTop)
       => LET a == ax'.artists[Len(y_stack')]
              y_top_annot == y_stack'[Len(y_stack')]
          IN  \A i \in 1..Len(y_stack_arr.x) :
                 /\ IF i \in Covered(a.x1, a.x2)
                    THEN /\ y_stack_arr'.top_y[i] = y_top_annot
                         /\ y_stack_arr'.depth[i] = y_stack_arr.depth[i] + 1
                    ELSE /\ y_stack_arr'.top_y[i] = y_stack_arr.top_y[i]
                         /\ y_stack_arr'.depth[i] = y_stack_arr.depth[i]
                 /\ y_stack_arr'.depth[i]
                       = Cardinality({k \in 1..Len(y_stack') :
                                        i \in Covered(ax'.artists[k].x1, ax'.artists[k].x2)})]_vars


====
